---- MODULE Spec2Model ----
(***************************************************************************)
(* State-machine model of GovInfoScraper (scraper.py): the progress        *)
(* ledger downloads/progress.json, the downloaded files, the remote        *)
(* service, and the two entry points download_bills_from_urls and          *)
(* batch_download_bills, one candidate at a time.                          *)
(***************************************************************************)
EXTENDS Integers, Sequences, FiniteSets, TLC

\* ------------------------------------------------------------------ bounds
NumTypes == 2       \* how many of the declared bill types are enumerated
NumVersions == 1    \* how many of the declared bill versions are enumerated
MaxNumber == 1      \* bill numbers range over 1..MaxNumber
MaxUrls == 2        \* longest --urls list
MaxRuns == 2        \* number of program runs in one behaviour
MaxSeq == 11        \* bill numbers 1..MaxSeq (and 9999) when a function is
                    \* applied outside a run
MaxSpan == 3        \* longest range of bill numbers generate_bill_urls is
                    \* applied to outside a run

\* --------------------------------------------------------------- constants
base_url == "https://www.govinfo.gov"

mirror_url == "https://mirror.example.org"

downloads_dir == "downloads"

default_congress == "118"

\* self.bill_types and self.bill_versions as __init__ declares them
declared_bill_types ==
  <<"hconres", "hjres", "hr", "hres", "s", "sconres", "sjres", "sres">>

declared_bill_versions ==
  <<"ih", "eh", "rh", "rfs", "is", "es", "rs", "ats", "enr">>

\* the part of them a run enumerates
bill_types == SubSeq(declared_bill_types, 1, NumTypes)

bill_versions == SubSeq(declared_bill_versions, 1, NumVersions)

Range(s) == {s[k] : k \in DOMAIN s}

\* f"BILLS-{congress}{bill_type}{number}{version}"
MakeBillId(congress, bill_type, number, version) ==
  "BILLS-" \o congress \o bill_type \o ToString(number) \o version

\* f"{base_url}/content/pkg/{bill_id}/pdf/{bill_id}.pdf": a URL is kept as its
\* origin, the directory segments of its path and its file name (stem, ext)
MakeUrl(origin, bill_id) ==
  [origin |-> origin,
   dirs   |-> <<"content", "pkg", bill_id, "pdf">>,
   file   |-> <<bill_id, "pdf">>]

\* os.path.splitext(os.path.basename(urlparse(url).path))[0]
extract_bill_id_from_url(url) == url.file[1]

\* ---- the same on the text of an address, character by character
\* f"{self.base_url}/content/pkg/{bill_id}/pdf/{bill_id}.pdf"
bill_url(bill_id) ==
  base_url \o "/content/pkg/" \o bill_id \o "/pdf/" \o bill_id \o ".pdf"

\* the text of an address kept as origin, directories and file name
url_text(url) ==
  url.origin \o "/" \o url.dirs[1] \o "/" \o url.dirs[2] \o "/"
    \o url.dirs[3] \o "/" \o url.dirs[4] \o "/"
    \o url.file[1] \o "." \o url.file[2]

\* str.find and str.rfind for a single character, 1-based, 0 when absent
RECURSIVE find(_, _, _)
find(str, c, n) ==
  IF n > Len(str) THEN 0
  ELSE IF SubSeq(str, n, n) = c THEN n ELSE find(str, c, n + 1)

RECURSIVE rfind(_, _, _)
rfind(str, c, n) ==
  IF n = 0 THEN 0
  ELSE IF SubSeq(str, n, n) = c THEN n ELSE rfind(str, c, n - 1)

\* urlparse(url).path of scheme://authority/path?query#fragment
urlparse_path(url) ==
  LET rest  == SubSeq(url, find(url, ":", 1) + 3, Len(url))
      slash == find(rest, "/", 1)
      tail  == IF slash = 0 THEN "" ELSE SubSeq(rest, slash, Len(rest))
      q     == find(tail, "?", 1)
      h     == find(tail, "#", 1)
      stop  == IF q = 0 /\ h = 0 THEN Len(tail) + 1
               ELSE IF q = 0 THEN h
                    ELSE IF h = 0 THEN q
                         ELSE IF q < h THEN q ELSE h
  IN SubSeq(tail, 1, stop - 1)

\* os.path.basename
basename(path) == SubSeq(path, rfind(path, "/", Len(path)) + 1, Len(path))

\* os.path.splitext: <<root, ext>>; a dot that begins the name starts no
\* extension
splitext(name) ==
  LET dot == rfind(name, ".", Len(name)) IN
  IF dot <= 1 THEN <<name, "">>
  ELSE <<SubSeq(name, 1, dot - 1), SubSeq(name, dot, Len(name))>>

\* extract_bill_id_from_url as it would be without the splitext call
extract_bill_id_keep_ext(url) == basename(urlparse_path(url))

\* extract_bill_id_from_url on the text of the address
extract_bill_id_from_text(url) == splitext(basename(urlparse_path(url)))[1]

\* the CandidateIdentifier tuples a function is applied to outside a run
Congresses == {"11", default_congress}

Numbers == (1..MaxSeq) \cup {9999}

CandidateIdentifiers ==
  {<<c, ty, n, v>> : c \in Congresses, ty \in Range(declared_bill_types),
                     n \in Numbers, v \in Range(declared_bill_versions)}

\* every identifier string with the tuple it was built from
IdTable ==
  {<<MakeBillId(c[1], c[2], c[3], c[4]), c>> : c \in CandidateIdentifiers}

\* downloads/<bill_id>/<format>/<bill_id>.<ext>
file_path(bill_id, format_type) ==
  <<downloads_dir, bill_id, format_type,
    <<bill_id, IF format_type = "htm" THEN "html" ELSE format_type>>>>

\* generate_bill_urls as it would be with `for version` as the outer and
\* `for number` as the inner loop
EnumerateVersionsOuter(versions, congress, bill_type, number, end_number, v) ==
  LET count == IF number > end_number THEN 0 ELSE end_number - number + 1
      rest  == IF v > Len(versions) THEN 0 ELSE Len(versions) - v + 1
  IN [idx \in 1..(count * rest) |->
        MakeBillId(congress, bill_type, number + ((idx - 1) % count),
                   versions[v + ((idx - 1) \div count)])]

\* the candidates of one generate_bill_urls call, in the order of its loops:
\* `for number in range(number, end_number + 1)` outside, `for version in
\* versions` (from its v-th element on) inside
RECURSIVE EnumerateOver(_, _, _, _, _, _)
EnumerateOver(versions, congress, bill_type, number, end_number, v) ==
  IF number > end_number THEN <<>>
  ELSE IF v > Len(versions)
       THEN EnumerateOver(versions, congress, bill_type, number + 1,
                          end_number, 1)
       ELSE <<MakeBillId(congress, bill_type, number, versions[v])>>
            \o EnumerateOver(versions, congress, bill_type, number,
                             end_number, v + 1)

\* the same with the versions a run enumerates
Enumerate(congress, bill_type, number, end_number, v) ==
  EnumerateOver(bill_versions, congress, bill_type, number, end_number, v)

CandidateIds ==
  UNION {Range(Enumerate(default_congress, bill_types[t], 1, MaxNumber, 1)) :
           t \in DOMAIN bill_types}

GeneratedUrls == {MakeUrl(base_url, b) : b \in CandidateIds}

\* addresses a caller may pass with --urls: those of the first bill of the
\* first and of the last enumerated bill type, and one address on another
\* host whose file name names the first of these bills
DirectUrls ==
  {MakeUrl(base_url, MakeBillId(default_congress, bill_types[n], 1,
                                bill_versions[1])) :
     n \in {1, Len(bill_types)}}
  \cup {MakeUrl(mirror_url, MakeBillId(default_congress, bill_types[1], 1,
                                       bill_versions[1]))}

AllUrls == GeneratedUrls \cup DirectUrls

AllIds == {extract_bill_id_from_url(u) : u \in AllUrls}

UrlLists == UNION {[1..n -> DirectUrls] : n \in 1..MaxUrls}

\* ------------------------------------------------------------ the remote
\* What the service answers to a GET: a transport failure before any
\* response, or a status line, a content type, the first bytes of the body,
\* and whether reading the body from the socket breaks off.
Responses ==
  { [err |-> "none", status |-> 200, ctype |-> "application/pdf", head |-> "%PDF-"],
    [err |-> "none", status |-> 200, ctype |-> "text/html",       head |-> "<html"],
    [err |-> "none", status |-> 200, ctype |-> "application/pdf", head |-> "<html"],
    [err |-> "none", status |-> 404, ctype |-> "text/html",       head |-> "<html"],
    [err |-> "none", status |-> 500, ctype |-> "text/html",       head |-> "<html"],
    [err |-> "read", status |-> 200, ctype |-> "application/pdf", head |-> ""],
    [err |-> "connect", status |-> 0, ctype |-> "", head |-> ""] }

\* answers of a service that is reachable and whose content does not change:
\* a PDF document, a page that is not a PDF, nothing
StableResponses ==
  {r \in Responses :
     /\ r.err = "none"
     /\ r.status # 500
     /\ r.ctype = "application/pdf" => r.head = "%PDF-"}

\* the responses validate_url is applied to outside a run: further status
\* codes, content types and first bytes
ProbeInputs ==
  Responses \cup
  [err    : {"none"},
   status : {200, 204, 403, 404, 500},
   ctype  : {"application/pdf", "Application/PDF; charset=binary",
             "text/html", ""},
   head   : {"%PDF-", "<html", ""}]

\* str.lower for ASCII letters
upper_letters == "ABCDEFGHIJKLMNOPQRSTUVWXYZ"

lower_letters == "abcdefghijklmnopqrstuvwxyz"

RECURSIVE lower(_)
lower(str) ==
  IF str = "" THEN ""
  ELSE LET c == SubSeq(str, 1, 1)
           n == find(upper_letters, c, 1)
       IN (IF n = 0 THEN c ELSE SubSeq(lower_letters, n, n))
            \o lower(Tail(str))

\* sub in str
Contains(str, sub) ==
  \E n \in 1..(Len(str) - Len(sub) + 1) :
    SubSeq(str, n, n + Len(sub) - 1) = sub

\* the content types for which 'application/pdf' in content_type.lower()
\* is true
PdfContentTypes ==
  {c \in {r.ctype : r \in ProbeInputs} :
     Contains(lower(c), "application/pdf")}

\* validate_url: <<exists, error_message>>, or the exception that escapes it
validate_url(r) ==
  IF r.err = "connect"
  THEN [raised |-> FALSE, exists |-> FALSE, reason |-> "transport-error"]
  ELSE IF r.status = 200
       THEN IF r.ctype \in PdfContentTypes
            THEN IF r.err = "read"
                 THEN [raised |-> TRUE, exists |-> FALSE, reason |-> "read-error"]
                 ELSE IF r.head = "%PDF-"
                      THEN [raised |-> FALSE, exists |-> TRUE, reason |-> "confirmed"]
                      ELSE [raised |-> FALSE, exists |-> FALSE, reason |-> "malformed-body"]
            ELSE [raised |-> FALSE, exists |-> FALSE, reason |-> "wrong-content-type"]
       ELSE IF r.status = 404
            THEN [raised |-> FALSE, exists |-> FALSE, reason |-> "not-found"]
            ELSE [raised |-> FALSE, exists |-> FALSE, reason |-> "unexpected-status"]

\* how a probe ended, as the run's history keeps it
ProbeState(o) ==
  IF o.raised THEN "raised" ELSE IF o.exists THEN "confirmed" ELSE "rejected"

\* requests.get(url) followed by raise_for_status(): the body, or
\* "RequestException"
full_body_request(r) ==
  IF r.err # "none" THEN "RequestException"
  ELSE IF r.status >= 400 THEN "RequestException"
       ELSE IF r.head = "%PDF-" THEN "pdf" ELSE "other"

\* ------------------------------------------------------------- the ledger
Entry(bill_id, formats) ==
  [bill_id |-> bill_id,
   files   |-> [f \in formats |-> file_path(bill_id, f)]]

AbsentFile == [kind |-> "absent", entries |-> <<>>]

LedgerFile(entries) == [kind |-> "ledger", entries |-> entries]

\* text that json.load rejects: an emptied or half-written file, or any
\* other text that is not JSON
MalformedFile == [kind |-> "malformed", entries |-> <<>>]

\* well-formed JSON that is not an array of entry objects, such as [null]
NonLedgerFile == [kind |-> "nonledger", entries |-> <<>>]

\* load_progress: the value returned
load_progress(f) ==
  IF f.kind = "ledger" THEN f.entries
  ELSE IF f.kind = "nonledger" THEN <<"null">>
       ELSE <<>>

\* get_downloaded_bills raises when an element of the loaded value has no
\* 'bill_id'
get_downloaded_bills_raises(f) == f.kind = "nonledger"

\* the set it returns when it does not raise
get_downloaded_bills(f) ==
  IF get_downloaded_bills_raises(f) THEN {}
  ELSE {load_progress(f)[k].bill_id : k \in DOMAIN load_progress(f)}

\* ---------------------------------------------------------------- state
VARIABLES
  pc,               \* where the process is: "idle", "probe", "load", "loop",
                    \* "saving", "done", "aborted" (uncaught exception),
                    \* "crashed" (process killed)
  mode,             \* "urls" or "batch": the branch main() took
  skip_existing,    \* argument of download_bills_from_urls
  start_number,     \* batch range
  end_number,
  t,                \* batch_download_bills: index of bill_type in bill_types
  k,                \* generate_bill_urls: index of the candidate being probed
  urls,             \* the list being built by generate_bill_urls / processed
  i,                \* download_bills_from_urls: enumerate(urls, 1)
  all_results,      \* download_bills_from_urls: the in-memory ledger
  downloaded_bills, \* download_bills_from_urls: ids loaded at its start
  failed_urls,      \* download_bills_from_urls: (url, error) pairs
  batch_results,    \* batch_download_bills: its own all_results
  progress,         \* the file downloads/progress.json
  disk,             \* bill id -> content of downloads/<id>/pdf/<id>.pdf
  remote,           \* url -> the responses the service may give for it
  runs,             \* how many times the program was started
  \* history of the current run, kept for the properties
  probed,           \* url -> outcome of validate_url in this run, or "none"
  last_call,        \* the last download_bill_from_url call of this run
  fetched,          \* the urls a full-body request was issued for in this run
  fetch_failed,     \* the urls whose download returned None in this run
  skipped,          \* urls skipped because their id was in downloaded_bills
  recorded,         \* entries appended in this run whose save completed
  start_progress,   \* progress.json as it was when the run started
  last_save,        \* the last save_progress call: what load_progress gave
                    \* just before it opened the file, and what it was given
  faults,           \* whether a file write failed in this run
  crash_pc,         \* pc at the moment the process was killed
  prev,             \* the run before this one, if it returned and the
                    \* service is one whose answers do not change
  log,              \* the probes, full-body requests and all_results.append
                    \* calls of this run, in the order they happened
  \* a single function applied to a single input, outside any run
  calc              \* the function, its input and what it returned

program_vars ==
  <<pc, mode, skip_existing, start_number, end_number, t, k, urls, i,
    all_results, downloaded_bills, failed_urls, batch_results>>

world_vars == <<progress, disk, remote, runs>>

history_vars ==
  <<probed, last_call, fetched, fetch_failed, skipped, recorded,
    start_progress, last_save, faults,
    crash_pc, prev, log>>

vars == <<program_vars, world_vars, history_vars, calc>>

Running == {"probe", "load", "loop", "saving"}

Params == <<mode, skip_existing, start_number, end_number,
            IF mode = "urls" THEN urls ELSE <<>>>>

\* every address has one fixed answer
RemoteStable == \A u \in AllUrls : Cardinality(remote[u]) = 1

NoPrev ==
  [valid |-> FALSE, params |-> <<>>, recorded |-> {}, failed |-> {},
   faults |-> FALSE]

NoSave == [old |-> <<>>, new |-> <<>>]

NoCall == [i |-> 0, ret |-> "none", request |-> "none", bill_id |-> "none"]

NoCalc == [fn |-> "none", input |-> <<>>, output |-> <<>>]

Event(op, url) == [op |-> op, url |-> url]

\* the candidates of this run that ended Rejected, FetchFailed
Rejected == {u \in AllUrls : probed[u] = "rejected"}

FetchFailed == fetch_failed

Fetched == fetched

RecordedIds == {recorded[n].bill_id : n \in DOMAIN recorded}

InitCommon ==
  /\ pc = "idle"
  /\ mode = "urls"
  /\ skip_existing = TRUE
  /\ start_number = 1
  /\ end_number = 1
  /\ t = 1
  /\ k = 1
  /\ urls = <<>>
  /\ i = 1
  /\ all_results = <<>>
  /\ downloaded_bills = {}
  /\ failed_urls = <<>>
  /\ batch_results = <<>>
  /\ progress \in {AbsentFile, MalformedFile, NonLedgerFile}
  /\ disk = [b \in AllIds |-> "absent"]
  /\ runs = 0
  /\ probed = [u \in AllUrls |-> "none"]
  /\ last_call = NoCall
  /\ fetched = {}
  /\ fetch_failed = {}
  /\ skipped = {}
  /\ recorded = <<>>
  /\ start_progress = progress
  /\ last_save = NoSave
  /\ faults = FALSE
  /\ crash_pc = "none"
  /\ prev = NoPrev
  /\ log = <<>>
  /\ calc = NoCalc

\* the service may answer any request in any way
Init == InitCommon /\ remote = [u \in AllUrls |-> Responses]

\* the service gives every address one fixed answer
InitStable ==
  InitCommon /\ remote \in [AllUrls -> {{r} : r \in StableResponses}]

\* main() starts: a new process, with nothing in memory
StartRun ==
  /\ pc = "idle"
  /\ runs < MaxRuns
  /\ runs' = runs + 1
  /\ UNCHANGED <<t, k, i, all_results, downloaded_bills, failed_urls,
                 batch_results, progress, disk, remote, history_vars, calc>>

\* the process is gone (main returned, or the interpreter ended it); what
\* stays is what is on disk
Exit ==
  /\ pc \in {"done", "aborted", "crashed"}
  /\ pc' = "idle"
  /\ mode' = "urls" /\ skip_existing' = TRUE
  /\ start_number' = 1 /\ end_number' = 1
  /\ t' = 1 /\ k' = 1 /\ i' = 1
  /\ urls' = <<>>
  /\ all_results' = <<>> /\ downloaded_bills' = {} /\ failed_urls' = <<>>
  /\ batch_results' = <<>>
  /\ probed' = [u \in AllUrls |-> "none"]
  /\ last_call' = NoCall /\ fetched' = {} /\ fetch_failed' = {}
  /\ skipped' = {}
  /\ recorded' = <<>>
  /\ start_progress' = progress
  /\ last_save' = NoSave
  /\ faults' = FALSE
  /\ crash_pc' = "none"
  /\ prev' = IF pc = "done" /\ RemoteStable
             THEN [valid |-> TRUE, params |-> Params, recorded |-> RecordedIds,
                   failed |-> Rejected \cup FetchFailed, faults |-> faults]
             ELSE NoPrev
  /\ log' = <<>>
  /\ UNCHANGED <<world_vars, calc>>

\* main() with --urls: download_bills_from_urls(args.urls, not args.force)
StartUrlsFrom(lists) ==
  /\ StartRun
  /\ \E us \in lists, force \in BOOLEAN :
       /\ mode' = "urls"
       /\ skip_existing' = ~force
       /\ urls' = us
  /\ pc' = "load"
  /\ UNCHANGED <<start_number, end_number>>

StartUrls == StartUrlsFrom(UrlLists)

\* main() with --urls and a single address
StartOneUrl == StartUrlsFrom([1..1 -> DirectUrls])

\* main() without --urls: batch_download_bills(congress, start, end), whose
\* calls of download_bills_from_urls leave skip_existing at its default
StartBatch ==
  /\ StartRun
  /\ \E s \in 1..MaxNumber, e \in 1..MaxNumber :
       /\ s <= e
       /\ start_number' = s
       /\ end_number' = e
  /\ mode' = "batch"
  /\ skip_existing' = TRUE
  /\ urls' = <<>>
  /\ pc' = "probe"

Candidates ==
  Enumerate(default_congress, bill_types[t], start_number, end_number, 1)

\* the process ends: by return, by an uncaught exception, or by being killed
Terminate(how, results) ==
  /\ pc' = how
  /\ all_results' = results
  /\ downloaded_bills' = {}
  /\ failed_urls' = IF how = "done" THEN failed_urls ELSE <<>>
  /\ t' = 1 /\ k' = 1 /\ i' = 1
  /\ urls' = IF mode = "urls" THEN urls ELSE <<>>
  /\ UNCHANGED <<mode, skip_existing, start_number, end_number>>

\* batch_download_bills: the body of `for bill_type` is over; br is its
\* all_results after the extend
NextBillType(br) ==
  IF t < Len(bill_types)
  THEN /\ t' = t + 1 /\ k' = 1 /\ i' = 1
       /\ urls' = <<>>
       /\ pc' = "probe"
       /\ batch_results' = br
       /\ all_results' = <<>> /\ downloaded_bills' = {} /\ failed_urls' = <<>>
       /\ UNCHANGED <<mode, skip_existing, start_number, end_number>>
  ELSE /\ batch_results' = br
       /\ Terminate("done", <<>>)

\* generate_bill_urls: one turn of its inner loop, and what follows the
\* last turn
Probe ==
  /\ pc = "probe"
  /\ LET url == MakeUrl(base_url, Candidates[k]) IN
     \E r \in remote[url] :
       LET o == validate_url(r)
           found == IF o.exists THEN Append(urls, url) ELSE urls
       IN
       /\ probed' = [probed EXCEPT ![url] = ProbeState(o)]
       /\ log' = Append(log, Event("probe", url))
       /\ IF o.raised
          THEN Terminate("aborted", <<>>) /\ batch_results' = <<>>
          ELSE IF k < Len(Candidates)
               THEN /\ k' = k + 1
                    /\ urls' = found
                    /\ UNCHANGED <<pc, mode, skip_existing, start_number,
                                   end_number, t, i, all_results,
                                   downloaded_bills, failed_urls,
                                   batch_results>>
               ELSE IF found # <<>>
                    THEN /\ urls' = found
                         /\ pc' = "load"
                         /\ UNCHANGED <<mode, skip_existing, start_number,
                                        end_number, t, k, i, all_results,
                                        downloaded_bills, failed_urls,
                                        batch_results>>
                    ELSE NextBillType(batch_results)
  /\ UNCHANGED <<world_vars, last_call, fetched, fetch_failed, skipped,
                 recorded, start_progress,
                 last_save, faults, crash_pc, prev, calc>>

\* download_bills_from_urls, lines before the loop
Load ==
  /\ pc = "load"
  /\ IF get_downloaded_bills_raises(progress)
     THEN Terminate("aborted", <<>>) /\ batch_results' = <<>>
     ELSE /\ all_results' = load_progress(progress)
          /\ downloaded_bills' = get_downloaded_bills(progress)
          /\ failed_urls' = <<>>
          /\ i' = 1
          /\ pc' = "loop"
          /\ UNCHANGED <<mode, skip_existing, start_number, end_number, t, k,
                         urls, batch_results>>
  /\ UNCHANGED <<world_vars, history_vars, calc>>

\* download_bills_from_urls: the turn for urls[i] is over; ar and fu are
\* all_results and failed_urls now
NextUrl(ar, fu) ==
  IF i < Len(urls)
  THEN /\ i' = i + 1
       /\ pc' = "loop"
       /\ all_results' = ar
       /\ failed_urls' = fu
       /\ UNCHANGED <<mode, skip_existing, start_number, end_number, t, k,
                      urls, downloaded_bills, batch_results>>
  ELSE IF mode = "urls"
       THEN /\ pc' = "done"
            /\ all_results' = ar
            /\ failed_urls' = fu
            /\ UNCHANGED <<mode, skip_existing, start_number, end_number, t,
                           k, urls, i, downloaded_bills, batch_results>>
       ELSE NextBillType(batch_results \o ar)

\* download_bill_from_url as it would be without the os.path.exists test:
\* it asks the service on every call
download_bill_from_url_no_exists_test(content, skip, r, write_ok) ==
  IF full_body_request(r) = "RequestException"
  THEN [ret |-> "None", content |-> content, request |-> "RequestException"]
  ELSE IF write_ok
       THEN [ret |-> "path", content |-> full_body_request(r),
             request |-> full_body_request(r)]
       ELSE [ret |-> "OSError", content |-> "partial",
             request |-> full_body_request(r)]

\* download_bill_from_url as it would be if it opened the file for writing
\* before it asked the service
download_bill_from_url_open_first(content, skip, r, write_ok) ==
  IF skip /\ content # "absent"
  THEN [ret |-> "path", content |-> content, request |-> "none"]
  ELSE IF full_body_request(r) = "RequestException"
       THEN [ret |-> "None", content |-> "partial",
             request |-> "RequestException"]
       ELSE IF write_ok
            THEN [ret |-> "path", content |-> full_body_request(r),
                  request |-> full_body_request(r)]
            ELSE [ret |-> "OSError", content |-> "partial",
                  request |-> full_body_request(r)]

\* download_bill_from_url for the pdf format: what it returns ("path",
\* "None", or the OSError that escapes it), the file at file_path afterwards,
\* and whether and with which result it asked the service.  content is the
\* file before the call, r the response if a request is made, write_ok
\* whether the file system takes the whole body.
download_bill_from_url(content, skip, r, write_ok) ==
  IF skip /\ content # "absent"
  THEN [ret |-> "path", content |-> content, request |-> "none"]
  ELSE IF full_body_request(r) = "RequestException"
       THEN [ret |-> "None", content |-> content, request |-> "RequestException"]
       ELSE IF write_ok
            THEN [ret |-> "path", content |-> full_body_request(r),
                  request |-> full_body_request(r)]
            ELSE [ret |-> "OSError", content |-> "partial",
                  request |-> full_body_request(r)]

\* download_bill as it would be if it returned results whether or not a
\* format succeeded
download_bill_without_success_test(bill_id, d) ==
  <<Entry(bill_id, IF d.ret = "path" THEN {"pdf"} ELSE {})>>

\* download_bill with bill_data = {bill_id, pdf_url, title}: the only format
\* whose url_key is in bill_data is pdf; d is the outcome of its download
download_bill(bill_id, d) ==
  IF d.ret = "path" THEN <<Entry(bill_id, {"pdf"})>> ELSE <<>>

\* download_bills_from_urls: one turn of the loop, up to the point where
\* save_progress has opened progress.json for writing
ProcessUrl ==
  /\ pc = "loop"
  /\ LET url == urls[i]
         bill_id == extract_bill_id_from_url(url)
     IN
     IF skip_existing /\ bill_id \in downloaded_bills
     THEN /\ skipped' = skipped \cup {url}
          /\ NextUrl(all_results, failed_urls)
          /\ UNCHANGED <<world_vars, probed, last_call, fetched, fetch_failed,
                         recorded, start_progress,
                         last_save, faults, crash_pc, prev, log, calc>>
     ELSE \E r \in remote[url], write_ok \in BOOLEAN :
            LET d == download_bill_from_url(disk[bill_id], skip_existing, r,
                                            write_ok)
                results == download_bill(bill_id, d)
            IN
            /\ last_call' = [i |-> i, ret |-> d.ret, request |-> d.request,
                             bill_id |-> bill_id]
            /\ fetched' = IF d.request # "none" THEN fetched \cup {url}
                          ELSE fetched
            /\ log' = log
                       \o (IF d.request # "none"
                           THEN <<Event("fetch", url)>> ELSE <<>>)
                       \o (IF results # <<>> /\ d.ret # "OSError"
                           THEN <<Event("append", url)>> ELSE <<>>)
            /\ fetch_failed' = IF results = <<>> /\ d.ret # "OSError"
                               THEN fetch_failed \cup {url}
                               ELSE fetch_failed
            /\ disk' = [disk EXCEPT ![bill_id] = d.content]
            /\ faults' = (faults \/ d.ret = "OSError")
            /\ IF d.ret = "OSError"
               THEN /\ NextUrl(all_results,
                               Append(failed_urls, <<url, "OSError">>))
                    /\ UNCHANGED <<progress, last_save>>
               ELSE IF results # <<>>
                    THEN /\ all_results' = all_results \o results
                         /\ last_save' = [old |-> load_progress(progress),
                                          new |-> all_results \o results]
                         /\ progress' = MalformedFile
                         /\ pc' = "saving"
                         /\ UNCHANGED <<mode, skip_existing, start_number,
                                        end_number, t, k, urls, i,
                                        downloaded_bills, failed_urls,
                                        batch_results>>
                    ELSE /\ NextUrl(all_results, failed_urls)
                         /\ UNCHANGED <<progress, last_save>>
            /\ UNCHANGED <<remote, runs, probed, skipped, recorded,
                           start_progress, crash_pc, prev, calc>>

\* save_progress: json.dump writes the whole of all_results and the file is
\* closed; the turn of the loop ends
SaveWrite ==
  /\ pc = "saving"
  /\ progress' = LedgerFile(all_results)
  /\ recorded' = Append(recorded, all_results[Len(all_results)])
  /\ NextUrl(all_results, failed_urls)
  /\ UNCHANGED <<disk, remote, runs, probed, last_call, fetched, fetch_failed,
                 skipped, start_progress,
                 last_save, faults, crash_pc, prev, log, calc>>

\* save_progress: the write fails (OSError); the except clause of the loop
\* records the url as failed and goes on
SaveError ==
  /\ pc = "saving"
  /\ NextUrl(all_results, Append(failed_urls, <<urls[i], "OSError">>))
  /\ faults' = TRUE
  /\ UNCHANGED <<world_vars, probed, last_call, fetched, fetch_failed, skipped,
                 recorded, start_progress,
                 last_save, crash_pc, prev, log, calc>>

\* the process is killed
Crash ==
  /\ pc \in Running
  /\ crash_pc' = pc
  /\ Terminate("crashed", <<>>)
  /\ batch_results' = <<>>
  /\ probed' = [u \in AllUrls |-> "none"]
  /\ last_call' = NoCall
  /\ fetched' = {}
  /\ fetch_failed' = {}
  /\ skipped' = {}
  /\ log' = <<>>
  /\ UNCHANGED <<world_vars, recorded, start_progress, last_save, faults,
                 prev, calc>>

Next ==
  \/ StartUrls
  \/ Exit
  \/ StartBatch
  \/ Probe
  \/ Load
  \/ ProcessUrl
  \/ SaveWrite
  \/ SaveError
  \/ Crash

Spec == Init /\ [][Next]_vars

SpecStable == InitStable /\ [][Next]_vars

\* the program when every run is started with --urls and one address
NextOneUrl ==
  \/ StartOneUrl
  \/ Exit
  \/ Load
  \/ ProcessUrl
  \/ SaveWrite
  \/ SaveError
  \/ Crash

SpecOneUrl == Init /\ [][NextOneUrl]_vars

\* ---- single functions, applied to one input outside any run
\* validate_url(url) when the service answers r
ApplyValidateUrl ==
  /\ pc = "idle" /\ calc = NoCalc
  /\ \E r \in ProbeInputs :
       calc' = [fn |-> "validate_url", input |-> <<r>>,
                output |-> <<validate_url(r)>>]
  /\ UNCHANGED <<program_vars, world_vars, history_vars>>

\* generate_bill_urls builds bill_id and url for one candidate (lines
\* 106-107); extract_bill_id_from_url is applied to that url
ApplyExtractBillId ==
  /\ pc = "idle" /\ calc = NoCalc
  /\ \E c \in CandidateIdentifiers :
       LET bill_id == MakeBillId(c[1], c[2], c[3], c[4])
           url == bill_url(bill_id)
       IN calc' = [fn |-> "extract_bill_id_from_url", input |-> c,
                   output |-> <<bill_id, url, extract_bill_id_from_text(url)>>]
  /\ UNCHANGED <<program_vars, world_vars, history_vars>>

\* generate_bill_urls(congress, bill_type, start, end) with all declared
\* versions: the bill ids in the order in which it builds and probes them
ApplyGenerateBillUrls ==
  /\ pc = "idle" /\ calc = NoCalc /\ runs = 0
  /\ \E ty \in Range(declared_bill_types), s \in 1..MaxSeq,
        e \in 0..(MaxSeq + MaxSpan) :
       /\ e < s + MaxSpan
       /\ calc' = [fn |-> "generate_bill_urls",
                   input |-> <<default_congress, ty, s, e>>,
                   output |-> EnumerateOver(declared_bill_versions,
                                            default_congress, ty, s, e, 1)]
  /\ UNCHANGED <<program_vars, world_vars, history_vars>>

NextFunctions ==
  \/ ApplyValidateUrl
  \/ ApplyExtractBillId

\* main() without --urls, when no function has been applied on its own
StartBatchRun == calc = NoCalc /\ StartBatch

\* batch runs only, and generate_bill_urls on its own
NextEnumeration ==
  \/ StartBatchRun
  \/ Exit
  \/ Probe
  \/ Load
  \/ ProcessUrl
  \/ SaveWrite
  \/ SaveError
  \/ Crash
  \/ ApplyGenerateBillUrls

SpecEnumeration == Init /\ [][NextEnumeration]_vars

SpecFunctions == Init /\ [][NextFunctions]_vars

\* ------------------------------------------------------------ properties
NoDuplicateIds(entries) ==
  \A m, n \in DOMAIN entries :
    m # n => entries[m].bill_id # entries[n].bill_id

InLedgerFile(bill_id) ==
  /\ progress.kind = "ledger"
  /\ \E n \in DOMAIN progress.entries : progress.entries[n].bill_id = bill_id

\* C1: neither the in-memory ledger all_results nor progress.json ever holds
\* two entries with the same bill_id.
C1_NoDuplicateBillIds ==
  /\ NoDuplicateIds(all_results)
  /\ NoDuplicateIds(progress.entries)

\* C2: when a run that returned is repeated with the same parameters against
\* a service whose answers do not change (and no file write fails in either
\* run), the ledger after the second run is the ledger after the first, has
\* no duplicates, and the second run asks for no body of a bill the first
\* run recorded.
C2_RunIsIdempotent ==
  (pc = "done" /\ prev.valid /\ prev.params = Params /\ RemoteStable
     /\ ~prev.faults /\ ~faults)
  => /\ progress = start_progress
     /\ NoDuplicateIds(progress.entries)
     /\ \A u \in Fetched : extract_bill_id_from_url(u) \notin prev.recorded

\* C3: when the process is killed inside save_progress, load_progress
\* afterwards gives the sequence persisted before the save began or the
\* sequence being saved (stated for saves of a ledger without duplicates).
C3_SaveIsAtomic ==
  (pc = "crashed" /\ crash_pc = "saving" /\ NoDuplicateIds(last_save.new))
  => load_progress(progress) \in {last_save.old, last_save.new}

\* C4: an entry whose save completed in this run is still in progress.json
\* when the process is killed during any later candidate (stated for runs
\* whose ledger has no duplicates).
C4_RecordedSurvivesCrash ==
  (pc = "crashed" /\ NoDuplicateIds(last_save.new))
  => \A n \in DOMAIN recorded : InLedgerFile(recorded[n].bill_id)

\* C5: a candidate whose probe was invalid is never fetched; a candidate that
\* ended the run Rejected or FetchFailed is not in get_downloaded_bills()
\* after the run; and the next run with the same parameters probes or
\* fetches, and does not skip, every candidate the run before rejected or
\* failed to fetch.  (Stated for runs with skip_existing set and for bills
\* that no other candidate of the run recorded.)
C5_RejectedAndFailedAreRetried ==
  /\ Rejected \cap Fetched = {}
  /\ (pc = "done" /\ skip_existing) =>
       \A u \in Rejected \cup FetchFailed :
         extract_bill_id_from_url(u) \notin
           get_downloaded_bills(progress) \ RecordedIds
  /\ (pc = "done" /\ skip_existing /\ prev.valid /\ prev.params = Params) =>
       \A u \in prev.failed :
         extract_bill_id_from_url(u) \notin prev.recorded
         => /\ u \notin skipped
            /\ probed[u] # "none" \/ u \in Fetched

\* C6: an entry is written to the ledger only for a bill one of whose
\* addresses was probed and confirmed earlier in the same run.
C6_RecordedWasConfirmed ==
  \A n \in DOMAIN recorded :
    \E u \in AllUrls :
      /\ extract_bill_id_from_url(u) = recorded[n].bill_id
      /\ probed[u] = "confirmed"

\* C7: a candidate is skipped exactly when its id was in
\* get_downloaded_bills() at the start of the run, and for such a candidate
\* the run issues no probe and no fetch.  (Stated for runs with
\* skip_existing set.)
C7_SkippedWithoutRequest ==
  skip_existing =>
    /\ \A u \in skipped : probed[u] = "none" /\ u \notin Fetched
    /\ \A u \in AllUrls :
         (probed[u] # "none" \/ u \in Fetched)
           => extract_bill_id_from_url(u) \notin
                get_downloaded_bills(start_progress)

\* C8: a failure while one candidate is processed (here: an exception while
\* it is probed) never ends the run.
C8_CandidateFailureNeverAborts ==
  ~(pc = "aborted" /\ \E u \in AllUrls : probed[u] = "raised")

\* C9: a progress.json that cannot be read as a ledger never ends the run:
\* it is read as the empty ledger.
C9_CorruptLedgerNeverFatal ==
  start_progress.kind \in {"malformed", "nonledger"}
  => /\ ~(pc = "aborted" /\ \A u \in AllUrls : probed[u] # "raised")
     /\ (pc = "loop" /\ i = 1 /\ progress = start_progress)
          => (all_results = <<>> /\ downloaded_bills = {})

\* C10: a download_bill_from_url call whose request ends in a non-success
\* status or a transport failure returns None and leaves every downloaded
\* file as it was.
C10_FailedRequestLeavesFile ==
  [][(last_call' # last_call /\ last_call'.request = "RequestException")
      => (last_call'.ret = "None" /\ disk' = disk)]_vars

\* a request failed for a bill whose file was on disk from an earlier run,
\* and the file is as that run left it
C10_Witness ==
  /\ last_call.request = "RequestException"
  /\ last_call.ret = "None"
  /\ disk[last_call.bill_id] = "pdf"

\* C11: when a file write fails part-way, (a) a failed save_progress leaves
\* the ledger that was on disk before it readable, and (c) no later call of
\* download_bill_from_url accepts the file a failed body write left behind
\* through its skip-if-present check instead of asking the service again.
C11_WriteFailureHandled ==
  [][/\ (pc = "saving" /\ pc' # "crashed" /\ recorded' = recorded)
          => load_progress(progress') = last_save.old
     /\ (last_call' # last_call /\ last_call'.ret = "path"
           /\ last_call'.request = "none")
          => disk[last_call'.bill_id] # "partial"]_vars

\* C12: when download_bills_from_urls returns, failed_urls holds a pair for
\* every address whose download failed (download_bill_from_url returned None
\* after a non-success status or a transport error), and none for an address
\* that was skipped or whose bill the run recorded.
C12_FailureListComplete ==
  (pc = "done" /\ mode = "urls")
  => /\ \A u \in FetchFailed :
          \E n \in DOMAIN failed_urls : failed_urls[n][1] = u
     /\ \A n \in DOMAIN failed_urls :
          /\ failed_urls[n][1] \notin skipped
          /\ extract_bill_id_from_url(failed_urls[n][1]) \notin RecordedIds

\* C13: validate_url answers every response and every transport failure
\* with a pair (no exception escapes it); exists is true exactly for status
\* 200 with a content type containing application/pdf and first bytes
\* %PDF-; otherwise the reason is wrong-content-type (200, other content
\* type), malformed-body (200, PDF content type, other first bytes),
\* not-found (404) or transport-error (the request failed), and there is no
\* other reason.
C13_ProbeClassificationTotal ==
  calc.fn = "validate_url" =>
    LET r == calc.input[1]
        o == calc.output[1]
        is_pdf_type == Contains(lower(r.ctype), "application/pdf")
    IN
    /\ ~o.raised
    /\ o.reason \in {"confirmed", "not-found", "wrong-content-type",
                     "malformed-body", "transport-error"}
    /\ o.exists <=> (r.err = "none" /\ r.status = 200 /\ is_pdf_type
                     /\ r.head = "%PDF-")
    /\ o.exists <=> o.reason = "confirmed"
    /\ r.err # "none" => o.reason = "transport-error"
    /\ (r.err = "none" /\ r.status = 404) => o.reason = "not-found"
    /\ (r.err = "none" /\ r.status = 200 /\ ~is_pdf_type)
         => o.reason = "wrong-content-type"
    /\ (r.err = "none" /\ r.status = 200 /\ is_pdf_type /\ r.head # "%PDF-")
         => o.reason = "malformed-body"

\* C14: for every candidate tuple (congress, bill type, number, version),
\* extract_bill_id_from_url applied to the address generate_bill_urls builds
\* gives back the bill_id that was put into it, on the text of the address
\* as on its parts, and no other tuple has the same bill_id.
C14_RoundTrip ==
  calc.fn = "extract_bill_id_from_url" =>
    LET c == calc.input
        bill_id == calc.output[1]
        url == calc.output[2]
        extracted == calc.output[3]
    IN
    /\ extracted = bill_id
    /\ url = url_text(MakeUrl(base_url, bill_id))
    /\ extract_bill_id_from_url(MakeUrl(base_url, bill_id)) = extracted
    /\ \A p \in IdTable : p[1] = bill_id => p[2] = c

\* the round trip was made for the Senate bill with the largest number
C14_Witness ==
  /\ calc.fn = "extract_bill_id_from_url"
  /\ calc.input = <<default_congress, "s", 9999, "is">>
  /\ calc.output[2] =
       "https://www.govinfo.gov/content/pkg/BILLS-118s9999is/pdf/BILLS-118s9999is.pdf"
  /\ calc.output[3] = "BILLS-118s9999is"

\* position of a generated address in the cross-product: index of its bill
\* type, its number, index of its version
RankTable ==
  [url \in GeneratedUrls |->
     CHOOSE r \in (DOMAIN bill_types) \X (1..MaxNumber)
                    \X (DOMAIN bill_versions) :
       url = MakeUrl(base_url,
                     MakeBillId(default_congress, bill_types[r[1]], r[2],
                                bill_versions[r[3]]))]

Rank(url) == RankTable[url]

\* bill type first, then number ascending, then version
Before(a, b) ==
  \/ a[1] < b[1]
  \/ a[1] = b[1] /\ a[2] < b[2]
  \/ a[1] = b[1] /\ a[2] = b[2] /\ a[3] < b[3]

IsProbe(e) == e.op = "probe"

IsFetch(e) == e.op = "fetch"

IsAppend(e) == e.op = "append"

InEnumerationOrder(events) ==
  \A m, n \in DOMAIN events :
    m < n => Before(Rank(events[m].url), Rank(events[n].url))

CrossProduct ==
  {MakeUrl(base_url, MakeBillId(default_congress, bill_types[ty], n,
                                bill_versions[v])) :
     ty \in DOMAIN bill_types, n \in start_number..end_number,
     v \in DOMAIN bill_versions}

C16_ConfirmedBodyIsPdf ==
  \A u \in AllUrls :
    (/\ probed[u] = "confirmed"
     /\ u \in Fetched
     /\ extract_bill_id_from_url(u) \in RecordedIds)
    => disk[extract_bill_id_from_url(u)] = "pdf"

\* C17: a download_bill_from_url call made with skip_existing set for a bill
\* whose file exists returns the path, asks the service nothing and leaves
\* every file as it was, and the caller appends the bill to all_results and
\* goes on to save_progress; a call made without skip_existing, or for a bill
\* without a file, always issues a full-body request.
C17_SkipIfPresent ==
  [][(last_call' # last_call /\ last_call'.ret # "none") =>
       LET bill_id == last_call'.bill_id IN
       /\ (skip_existing /\ disk[bill_id] # "absent") =>
            /\ last_call'.ret = "path"
            /\ last_call'.request = "none"
            /\ disk' = disk
            /\ all_results' = Append(all_results, Entry(bill_id, {"pdf"}))
            /\ pc' = "saving"
       /\ (~skip_existing \/ disk[bill_id] = "absent") =>
            last_call'.request # "none"]_vars

\* a run without --force found the file of a bill that is not in the ledger,
\* asked for nothing and is about to save the bill's entry
C17_Witness ==
  /\ skip_existing
  /\ pc = "saving"
  /\ last_call.ret = "path"
  /\ last_call.request = "none"
  /\ disk[last_call.bill_id] = "pdf"
  /\ last_call.bill_id \notin get_downloaded_bills(start_progress)
  /\ all_results[Len(all_results)].bill_id = last_call.bill_id

\* what main() receives in `results` when the run returns: the all_results
\* of download_bills_from_urls, or that of batch_download_bills
results ==
  IF mode = "urls" THEN all_results ELSE batch_results

\* C18: the list a run returns holds exactly the entries the run recorded,
\* each once and in the order they were recorded: no entry loaded from the
\* ledger of an earlier run, and no entry twice.  (Stated for runs in which
\* no file write failed.)
C18_ResultsAreThisRunsEntries ==
  (pc = "done" /\ ~faults) => results = recorded

WellFormedEntries(entries) ==
  \A n \in DOMAIN entries :
    /\ DOMAIN entries[n].files = {"pdf"}
    /\ entries[n].files["pdf"] = file_path(entries[n].bill_id, "pdf")

\* C19: every entry of all_results and of progress.json has a files map
\* that is not empty and maps the requested format (pdf) to its path; an
\* entry is appended and save_progress entered exactly when the download of
\* the requested format returned a path; and whenever save_progress is
\* entered the file of the entry just appended exists on disk.
C19_EntriesWellFormed ==
  [][/\ WellFormedEntries(all_results')
     /\ WellFormedEntries(progress'.entries)
     /\ (last_call' # last_call /\ last_call'.ret # "none") =>
          /\ last_call'.ret = "path" =>
               /\ pc' = "saving"
               /\ all_results' = Append(all_results,
                                        Entry(last_call'.bill_id, {"pdf"}))
          /\ last_call'.ret # "path" =>
               /\ pc' # "saving"
               /\ progress' = progress
     /\ pc' = "saving" =>
          /\ all_results' # <<>>
          /\ disk'[all_results'[Len(all_results')].bill_id] # "absent"]_vars

\* an entry for a bill whose body was just downloaded and written is about
\* to be saved
C19_Witness ==
  /\ pc = "saving"
  /\ last_call.ret = "path"
  /\ last_call.request = "pdf"
  /\ disk[last_call.bill_id] = "pdf"
  /\ all_results[Len(all_results)] = Entry(last_call.bill_id, {"pdf"})

IsPrefix(a, b) == Len(a) <= Len(b) /\ SubSeq(b, 1, Len(a)) = a

\* C20: in a run that found a ledger in progress.json when it started, every
\* save_progress call is given a sequence that begins with that ledger and
\* that is the sequence given to the save before it in the same run (for
\* the first save: the ledger found at the start) with one entry added.
C20_LedgerAppendOnly ==
  [][(last_save' # last_save /\ pc' = "saving"
        /\ start_progress.kind = "ledger")
      => /\ IsPrefix(start_progress.entries, last_save'.new)
         /\ Len(last_save'.new) > 0
         /\ SubSeq(last_save'.new, 1, Len(last_save'.new) - 1)
              = (IF last_save = NoSave THEN start_progress.entries
                 ELSE last_save.new)]_vars

====
